---- MODULE Spec2Model ----
(***************************************************************************)
(* A model of the recursive DNS resolver of src/main.rs: the wire codec    *)
(* (BytePacketBuffer, DnsHeader, DnsQuestion, DnsRecord, DnsPacket), the   *)
(* resolver (lookup, recursive_lookup), the dispatcher (handle_query) and  *)
(* the UDP/TCP workers sharing the TTL cache.                              *)
(*                                                                         *)
(* Strings are sequences of character codes ("a.b" is <<97, 46, 98>>), so  *)
(* that split('.'), ends_with and the label encoding are computed.         *)
(* A Result is carried by the buffer: st is "ok", "err" (an anyhow error   *)
(* returned with ?) or "panic" (an index out of the Vec's bounds, which    *)
(* aborts the thread). Once st is not "ok" every later operation leaves    *)
(* the buffer alone, which is what ? does to the rest of a function.       *)
(***************************************************************************)
EXTENDS Integers, Sequences, FiniteSets, TLC

VARIABLES
    cphase,   \* codec harness: which codec operation ran last
    cin,      \* codec harness: the value handed to the encoder
    cudp,     \* codec harness: the is_udp argument of DnsPacket::write
    cbuf,     \* codec harness: the BytePacketBuffer written / read
    cout,     \* codec harness: the value the decoder returned
    qbuf,     \* read_qname harness: the buffer holding the name
    qs        \* read_qname harness: the locals of read_qname's loop

codecVars == <<cphase, cin, cudp, cbuf, cout>>
qnameVars == <<qbuf, qs>>

\* ---------------------------------------------------------------- numbers

BUF_LEN == 2048

Pow2(n) == 2 ^ n

Bit(x, i) == (x \div Pow2(i)) % 2

\* x as u8 / as u16. TLC's integers are 32 bits wide and signed: a u32 is
\* handled as its two u16 halves, and the u32 values of the model stay
\* below 2^31
U8(x) == x % 256
U16(x) == x % 65536

\* bitwise |, & and ^ on unsigned operands, bit by bit from the lowest
RECURSIVE Or16(_, _)
Or16(x, y) ==
    IF x = 0 THEN y
    ELSE IF y = 0 THEN x
    ELSE (IF x % 2 = 1 \/ y % 2 = 1 THEN 1 ELSE 0) + 2 * Or16(x \div 2, y \div 2)

RECURSIVE And16(_, _)
And16(x, y) ==
    IF x = 0 \/ y = 0 THEN 0
    ELSE (IF x % 2 = 1 /\ y % 2 = 1 THEN 1 ELSE 0) + 2 * And16(x \div 2, y \div 2)

RECURSIVE Xor16(_, _)
Xor16(x, y) ==
    IF x = 0 THEN y
    ELSE IF y = 0 THEN x
    ELSE (IF x % 2 # y % 2 THEN 1 ELSE 0) + 2 * Xor16(x \div 2, y \div 2)

\* the element of a singleton: The({ e : x \in {v} }) is e with x bound to v,
\* which is evaluated once
The(S) == CHOOSE x \in S : TRUE

\* bool as u8
B2N(b) == IF b THEN 1 ELSE 0

\* ------------------------------------------------------- BytePacketBuffer

\* BytePacketBuffer::new: buf is vec![0; BUF_LEN]; data holds the prefix of
\* buf that was written or received, every byte after it is 0.
NewBuffer == [data |-> <<>>, pos |-> 0, st |-> "ok"]

\* a buffer whose first bytes are the received bytes
BufferOf(bytes) == [data |-> bytes, pos |-> 0, st |-> "ok"]

\* self.buf[p] for p < BUF_LEN
ByteAt(b, p) == IF p < Len(b.data) THEN b.data[p + 1] ELSE 0

\* self.buf[p] = v for p < BUF_LEN
StoreAt(data, p, v) ==
    IF p = Len(data) THEN Append(data, v)
    ELSE [i \in 1..(IF p < Len(data) THEN Len(data) ELSE p + 1) |->
            IF i = p + 1 THEN v ELSE IF i <= Len(data) THEN data[i] ELSE 0]

Fail(b, how) == [b EXCEPT !.st = how]

step(b, steps) == IF b.st # "ok" THEN b ELSE [b EXCEPT !.pos = b.pos + steps]

seek(b, pos) == IF b.st # "ok" THEN b ELSE [b EXCEPT !.pos = pos]

\* read: the buffer after the call, and the byte returned
read(b) ==
    IF b.st # "ok" THEN b
    ELSE IF b.pos >= BUF_LEN THEN Fail(b, "panic")
    ELSE [b EXCEPT !.pos = b.pos + 1]

readVal(b) == IF b.st = "ok" /\ b.pos < BUF_LEN THEN ByteAt(b, b.pos) ELSE 0

\* get(pos): the buffer after the call (it only changes on a panic), and the byte
get(b, pos) ==
    IF b.st # "ok" THEN b
    ELSE IF pos >= BUF_LEN THEN Fail(b, "panic") ELSE b

getVal(b, pos) == IF b.st = "ok" /\ pos < BUF_LEN THEN ByteAt(b, pos) ELSE 0

\* get_range(start, len): &self.buf[start..start + len]
get_range(b, start, len) ==
    IF b.st # "ok" THEN b
    ELSE IF start + len > BUF_LEN THEN Fail(b, "panic") ELSE b

get_rangeVal(b, start, len) ==
    IF b.st = "ok" /\ start + len <= BUF_LEN
    THEN [i \in 1..len |-> ByteAt(b, start + i - 1)]
    ELSE <<>>

read_u16(b) == read(read(b))

read_u16Val(b) == Or16(readVal(b) * 256, readVal(read(b)))

read_u32(b) == read_u16(read_u16(b))

read_u32Val(b) == read_u16Val(b) * 65536 + read_u16Val(read_u16(b))

write(b, val) ==
    IF b.st # "ok" THEN b
    ELSE IF b.pos >= BUF_LEN THEN Fail(b, "panic")
    ELSE [b EXCEPT !.data = StoreAt(b.data, b.pos, val), !.pos = b.pos + 1]

write_u8(b, val) == write(b, val)

write_u16(b, val) == write(write(b, U8(val \div 256)), U8(And16(val, 255)))

write_u32(b, val) ==
    write_u16(write_u16(b, U16(val \div 65536)), U16(val % 256))

set(b, pos, val) ==
    IF b.st # "ok" THEN b
    ELSE IF pos >= BUF_LEN THEN Fail(b, "panic")
    ELSE [b EXCEPT !.data = StoreAt(b.data, pos, val)]

set_u16(b, pos, val) ==
    set(set(b, pos, U8(U16(val * 256))), pos + 1, U8(And16(val, 255)))

\* ------------------------------------------------------------------ names

\* str::to_lowercase on one character (the names of the model are ASCII)
ToLower(c) == IF c >= 65 /\ c <= 90 THEN c + 32 ELSE c

\* String::from_utf8_lossy on one byte: a byte of 128 or more standing alone
\* is no UTF-8 and becomes U+FFFD
Lossy(byte) == IF byte < 128 THEN byte ELSE 65533

\* str::as_bytes on one character: U+FFFD is the three bytes EF BF BD
Utf8(c) == IF c < 128 THEN <<c>> ELSE <<239, 191, 189>>

RECURSIVE Bytes(_)
Bytes(str) == IF str = <<>> THEN <<>> ELSE Utf8(Head(str)) \o Bytes(Tail(str))

\* qname.split('.'): the labels between the dots; "" splits to one empty label
RECURSIVE Split(_, _)
Split(str, cur) ==
    IF str = <<>> THEN <<cur>>
    ELSE IF Head(str) = 46 THEN <<cur>> \o Split(Tail(str), <<>>)
    ELSE Split(Tail(str), Append(cur, Head(str)))

\* qname.ends_with(domain)
EndsWith(str, suffix) ==
    /\ Len(suffix) <= Len(str)
    /\ SubSeq(str, Len(str) - Len(suffix) + 1, Len(str)) = suffix

max_jumps == 5

\* read_qname's locals before its loop
read_qname_start(b) ==
    [b |-> b, pos |-> b.pos, jumped |-> FALSE, jumps_performed |-> 0,
     delim |-> <<>>, outstr |-> <<>>, run |-> b.st = "ok"]

\* the jump limit test at the top of read_qname's loop
JumpLimitHitStrict(jumps) == jumps >= max_jumps
JumpLimitHit(jumps) == jumps > max_jumps

\* one iteration of read_qname's loop (and, on break, the seek after it)
read_qname_iter(s) ==
    IF JumpLimitHit(s.jumps_performed)
    THEN [s EXCEPT !.b = Fail(s.b, "err"), !.run = FALSE]
    ELSE
    LET b1  == get(s.b, s.pos)
        len == getVal(s.b, s.pos)
    IN  IF b1.st # "ok" THEN [s EXCEPT !.b = b1, !.run = FALSE]
        ELSE IF And16(len, 192) = 192
        THEN LET b2     == IF ~s.jumped THEN seek(b1, s.pos + 2) ELSE b1
                 b3     == get(b2, s.pos + 1)
                 lo     == getVal(b2, s.pos + 1)
                 offset == Or16(U16(Xor16(len, 192) * 256), lo)
             IN  IF b3.st # "ok" THEN [s EXCEPT !.b = b3, !.run = FALSE]
                 ELSE [s EXCEPT !.b = b3, !.pos = offset, !.jumped = TRUE,
                                !.jumps_performed = s.jumps_performed + 1]
        ELSE IF len = 0
        THEN [s EXCEPT !.b = IF ~s.jumped THEN seek(b1, s.pos + 1) ELSE b1,
                       !.pos = s.pos + 1, !.run = FALSE]
        ELSE LET b2  == get_range(b1, s.pos + 1, len)
                 raw == get_rangeVal(b1, s.pos + 1, len)
                 lbl == [i \in 1..Len(raw) |-> ToLower(Lossy(raw[i]))]
             IN  IF b2.st # "ok"
                 THEN [s EXCEPT !.b = b2, !.pos = s.pos + 1, !.run = FALSE,
                                !.outstr = s.outstr \o s.delim]
                 ELSE [s EXCEPT !.b = b2, !.pos = s.pos + 1 + len,
                                !.outstr = s.outstr \o s.delim \o lbl,
                                !.delim = <<46>>]

RECURSIVE read_qname_loop(_)
read_qname_loop(s) == IF s.run THEN read_qname_loop(read_qname_iter(s)) ELSE s

\* read_qname: the buffer after the call, and the name appended to an empty
\* outstr
read_qname(b) == read_qname_loop(read_qname_start(b)).b

read_qnameVal(b) == read_qname_loop(read_qname_start(b)).outstr

RECURSIVE write_bytes(_, _)
write_bytes(b, bytes) ==
    IF b.st # "ok" \/ bytes = <<>> THEN b ELSE write_bytes(write_u8(b, Head(bytes)), Tail(bytes))

RECURSIVE write_labels(_, _)
write_labels(b, labels) ==
    IF labels = <<>> \/ b.st # "ok" THEN b
    ELSE LET bytes == Bytes(Head(labels))
         IN  IF Len(bytes) > 63 THEN Fail(b, "err")
             ELSE write_labels(write_bytes(write_u8(b, Len(bytes)), bytes),
                               Tail(labels))

write_qname(b, qname) == write_u8(write_labels(b, Split(qname, <<>>)), 0)

\* ----------------------------------------------------------------- header

ResultCode_from(num) ==
    CASE num = 1 -> "FORMERR"
      [] num = 2 -> "SERVFAIL"
      [] num = 3 -> "NXDOMAIN"
      [] num = 4 -> "NOTIMP"
      [] num = 5 -> "REFUSED"
      [] OTHER   -> "NOERROR"

\* DnsHeader::default
DnsHeader_new ==
    [id |-> 0, recursion_desired |-> FALSE, truncated_message |-> FALSE,
     authoritative_answer |-> FALSE, opcode |-> 0, response |-> FALSE,
     rescode |-> "NOERROR", checking_disabled |-> FALSE, authed_data |-> FALSE,
     z |-> FALSE, recursion_available |-> FALSE, questions |-> 0, answers |-> 0,
     authoritative_entries |-> 0, resource_entries |-> 0]

\* DnsHeader::read: the buffer after the call, and self after the call
DnsHeader_read(b) == read_u16(read_u16(read_u16(read_u16(read_u16(read_u16(b))))))

DnsHeader_readVal(self, b) ==
    LET b1    == read_u16(b)
        flags == read_u16Val(b1)
        b2    == read_u16(b1)
        b3    == read_u16(b2)
        b4    == read_u16(b3)
        b5    == read_u16(b4)
        a     == U8(flags \div 256)
        bb    == U8(And16(flags, 255))
    IN  [self EXCEPT
            !.id = read_u16Val(b),
            !.recursion_desired = Bit(a, 0) = 1,
            !.truncated_message = Bit(a, 1) = 1,
            !.authoritative_answer = Bit(a, 2) = 1,
            !.opcode = And16(a \div 8, 15),
            !.response = Bit(a, 7) = 1,
            !.rescode = ResultCode_from(And16(bb, 15)),
            !.checking_disabled = Bit(bb, 4) = 1,
            !.authed_data = Bit(bb, 5) = 1,
            !.z = Bit(bb, 6) = 1,
            !.questions = read_u16Val(b2),
            !.answers = read_u16Val(b3),
            !.authoritative_entries = read_u16Val(b4),
            !.resource_entries = read_u16Val(b5)]

\* the two flag bytes DnsHeader::write emits
HeaderByteA(self) ==
    Or16(Or16(Or16(Or16(B2N(self.recursion_desired),
                        B2N(self.truncated_message) * 2),
                   B2N(self.authoritative_answer) * 4),
              U8(self.opcode * 8)),
         U8(B2N(self.response) * 128))

HeaderByteB(self) ==
    Or16(Or16(Or16(Or16(B2N(self.response),
                        B2N(self.checking_disabled) * 16),
                   B2N(self.authed_data) * 32),
              B2N(self.z) * 64),
         B2N(self.recursion_available) * 128)

\* DnsHeader::write: the buffer after the call; the position it returns is
\* the position of byte A, 2 past the position the header starts at
DnsHeader_write(self, b) ==
    LET b1 == write_u16(b, self.id)
        b2 == write_u8(b1, HeaderByteA(self))
        b3 == write_u8(b2, HeaderByteB(self))
        b4 == write_u16(b3, self.questions)
        b5 == write_u16(b4, self.answers)
        b6 == write_u16(b5, self.authoritative_entries)
    IN  write_u16(b6, self.resource_entries)

DnsHeader_writePos(b) == b.pos + 2

\* -------------------------------------------------------------- QueryType

\* a QueryType value: its variant and, for UNKNOWN, the number it carries
QT(tag) == [tag |-> tag, num |-> 0]
QT_UNKNOWN(n) == [tag |-> "UNKNOWN", num |-> n]

to_num(qtype) ==
    CASE qtype.tag = "UNKNOWN" -> qtype.num
      [] qtype.tag = "A"       -> 1
      [] qtype.tag = "NS"      -> 2
      [] qtype.tag = "CNAME"   -> 5
      [] qtype.tag = "MX"      -> 15
      [] qtype.tag = "AAAA"    -> 28

\* from_num; first a variant without the arm for 15
from_numNoMX(num) ==
    CASE num = 1  -> QT("A")
      [] num = 2  -> QT("NS")
      [] num = 5  -> QT("CNAME")
      [] num = 28 -> QT("AAAA")
      [] OTHER    -> QT_UNKNOWN(num)
from_num(num) ==
    CASE num = 1  -> QT("A")
      [] num = 2  -> QT("NS")
      [] num = 5  -> QT("CNAME")
      [] num = 15 -> QT("MX")
      [] num = 28 -> QT("AAAA")
      [] OTHER    -> QT_UNKNOWN(num)

\* ------------------------------------------------------------ DnsQuestion

DnsQuestion_new(name, qtype) == [name |-> name, qtype |-> qtype]

\* DnsQuestion::read on a question made by new("", UNKNOWN(0))
DnsQuestion_read(b) == read_u16(read_u16(read_qname(b)))

DnsQuestion_readVal(b) ==
    [name |-> read_qnameVal(b), qtype |-> from_num(read_u16Val(read_qname(b)))]

DnsQuestion_write(self, b) ==
    write_u16(write_u16(write_qname(b, self.name), to_num(self.qtype)), 1)

\* -------------------------------------------------------------- DnsRecord

RecA(domain, addr, ttl) ==
    [type |-> "A", domain |-> domain, addr |-> addr, ttl |-> ttl]
RecAAAA(domain, addr, ttl) ==
    [type |-> "AAAA", domain |-> domain, addr |-> addr, ttl |-> ttl]
RecNS(domain, host, ttl) ==
    [type |-> "NS", domain |-> domain, host |-> host, ttl |-> ttl]
RecCNAME(domain, host, ttl) ==
    [type |-> "CNAME", domain |-> domain, host |-> host, ttl |-> ttl]
RecMX(domain, priority, host, ttl) ==
    [type |-> "MX", domain |-> domain, priority |-> priority, host |-> host,
     ttl |-> ttl]
RecUNKNOWN(domain, qtype, data_len, ttl) ==
    [type |-> "UNKNOWN", domain |-> domain, qtype |-> qtype,
     data_len |-> data_len, ttl |-> ttl]

\* DnsRecord::read: b is the buffer after the call, v the record returned
DnsRecord_readBoth(b) ==
    LET domain    == read_qnameVal(b)
        b1        == read_qname(b)
        qtype_num == read_u16Val(b1)
        qtype     == from_num(qtype_num)
        b2        == read_u16(b1)
        b3        == read_u16(b2)
        ttl       == read_u32Val(b3)
        b4        == read_u32(b3)
        data_len  == read_u16Val(b4)
    IN  The({
        CASE qtype.tag = "A" ->
               LET hi == read_u16Val(b5)
                   lo == read_u16Val(read_u16(b5))
               IN  [b |-> read_u32(b5),
                    v |-> RecA(domain,
                               <<And16(hi \div 256, 255), And16(hi, 255),
                                 And16(lo \div 256, 255), And16(lo, 255)>>,
                               ttl)]
          [] qtype.tag = "AAAA" ->
               LET c1 == read_u32(b5)
                   c2 == read_u32(c1)
                   c3 == read_u32(c2)
               IN  [b |-> read_u32(c3),
                    v |-> RecAAAA(domain,
                                  <<read_u16Val(b5), read_u16Val(read_u16(b5)),
                                    read_u16Val(c1), read_u16Val(read_u16(c1)),
                                    read_u16Val(c2), read_u16Val(read_u16(c2)),
                                    read_u16Val(c3), read_u16Val(read_u16(c3))>>,
                                  ttl)]
          [] qtype.tag = "NS" ->
               [b |-> read_qname(b5), v |-> RecNS(domain, read_qnameVal(b5), ttl)]
          [] qtype.tag = "CNAME" ->
               [b |-> read_qname(b5),
                v |-> RecCNAME(domain, read_qnameVal(b5), ttl)]
          [] qtype.tag = "MX" ->
               LET priority == read_u16Val(b5)
                   c1       == read_u16(b5)
               IN  [b |-> read_qname(c1),
                    v |-> RecMX(domain, priority, read_qnameVal(c1), ttl)]
          [] OTHER ->
               [b |-> step(b5, data_len),
                v |-> RecUNKNOWN(domain, qtype_num, data_len, ttl)]
        : b5 \in {read_u16(b4)} })

DnsRecord_read(b) == DnsRecord_readBoth(b).b

DnsRecord_readVal(b) == DnsRecord_readBoth(b).v

\* the bytes before RDLENGTH that every arm of DnsRecord::write emits
write_prefix(b, domain, qtype, ttl) ==
    write_u32(write_u16(write_u16(write_qname(b, domain), to_num(qtype)), 1), ttl)

\* the back-patch of RDLENGTH at pos once the RDATA is written
patch_size(b, pos) == set_u16(b, pos, U16(b.pos - (pos + 2)))

write_record(b, qtype, domain, host, ttl) ==
    LET b1 == write_prefix(b, domain, qtype, ttl)
        b2 == write_qname(write_u16(b1, 0), host)
    IN  patch_size(b2, b1.pos)

RECURSIVE write_u16s(_, _)
write_u16s(b, vals) ==
    IF b.st # "ok" \/ vals = <<>> THEN b ELSE write_u16s(write_u16(b, Head(vals)), Tail(vals))

\* DnsRecord::write: the buffer after the call
DnsRecord_write(self, b) ==
    CASE self.type = "A" ->
           write_bytes(write_u16(write_prefix(b, self.domain, QT("A"), self.ttl), 4),
                       self.addr)
      [] self.type = "AAAA" ->
           write_u16s(write_u16(write_prefix(b, self.domain, QT("A"), self.ttl), 4),
                      self.addr)
      [] self.type = "NS" ->
           write_record(b, QT("NS"), self.domain, self.host, self.ttl)
      [] self.type = "CNAME" ->
           write_record(b, QT("CNAME"), self.domain, self.host, self.ttl)
      [] self.type = "MX" ->
           LET b1 == write_prefix(b, self.domain, QT("MX"), self.ttl)
               b2 == write_qname(write_u16(write_u16(b1, 0), self.priority),
                                 self.host)
           IN  patch_size(b2, b1.pos)
      [] OTHER -> b

DnsRecord_domain(self) == self.domain

DnsRecord_ttl(self) == self.ttl

\* -------------------------------------------------------------- DnsPacket

DnsPacket_new ==
    [header |-> DnsHeader_new, questions |-> <<>>, answers |-> <<>>,
     authorities |-> <<>>, resources |-> <<>>]

\* the loop `for _ in 0..n { question.read(buffer)?; push }`
RECURSIVE read_questions(_, _, _)
read_questions(b, n, acc) ==
    IF n = 0 \/ b.st # "ok" THEN [b |-> b, v |-> acc]
    ELSE LET b1 == DnsQuestion_read(b)
         IN  IF b1.st # "ok" THEN [b |-> b1, v |-> acc]
             ELSE read_questions(b1, n - 1, Append(acc, DnsQuestion_readVal(b)))

\* the loop `for _ in 0..n { let rec = DnsRecord::read(buffer)?; push }`
RECURSIVE read_records(_, _, _)
read_records(b, n, acc) ==
    IF n = 0 \/ b.st # "ok" THEN [b |-> b, v |-> acc]
    ELSE The({ IF r.b.st # "ok" THEN [b |-> r.b, v |-> acc]
               ELSE read_records(r.b, n - 1, Append(acc, r.v))
               : r \in {DnsRecord_readBoth(b)} })

\* DnsPacket::from_buffer: b is the buffer after the call (b.st tells Ok from
\* Err and from a panic), v the packet returned when b.st is "ok"
DnsPacket_from_buffer(b) ==
    LET b1 == DnsHeader_read(b)
    IN  The({ The({ The({ The({ The({
            [b |-> re.b,
             v |-> [header |-> header, questions |-> q.v, answers |-> an.v,
                    authorities |-> au.v, resources |-> re.v]]
            : re \in {read_records(au.b, header.resource_entries, <<>>)} })
            : au \in {read_records(an.b, header.authoritative_entries, <<>>)} })
            : an \in {read_records(q.b, header.answers, <<>>)} })
            : q  \in {read_questions(b1, header.questions, <<>>)} })
            : header \in {DnsHeader_readVal(DnsHeader_new, b)} })

RECURSIVE write_questions(_, _)
write_questions(b, qs_) ==
    IF b.st # "ok" \/ qs_ = <<>> THEN b
    ELSE write_questions(DnsQuestion_write(Head(qs_), b), Tail(qs_))

RECURSIVE write_records(_, _)
write_records(b, recs) ==
    IF b.st # "ok" \/ recs = <<>> THEN b
    ELSE write_records(DnsRecord_write(Head(recs), b), Tail(recs))

\* the test `if self.header.truncated_message && is_udp` of DnsPacket::write
PatchesTC(truncated, is_udp) == truncated /\ is_udp

\* DnsPacket::write: b is the buffer after the call, v is self after the call
DnsPacket_write(self, b, is_udp) ==
    LET header == [self.header EXCEPT
                      !.questions = U16(Len(self.questions)),
                      !.answers = U16(Len(self.answers)),
                      !.authoritative_entries = U16(Len(self.authorities)),
                      !.resource_entries = U16(Len(self.resources))]
        header_pos == DnsHeader_writePos(b)
        b1 == DnsHeader_write(header, b)
        b2 == write_questions(b1, self.questions)
        b3 == write_records(b2, self.answers)
        b4 == write_records(b3, self.authorities)
    IN  The({
        LET truncated == b5.pos > 512
            b6 == IF b5.st = "ok" /\ PatchesTC(truncated, is_udp)
                  THEN set(get(b5, header_pos), header_pos,
                           Or16(getVal(b5, header_pos), B2N(truncated) * 2))
                  ELSE b5
        IN  [b |-> b6,
             v |-> [self EXCEPT !.header =
                       IF b5.st = "ok"
                       THEN [header EXCEPT !.truncated_message = truncated]
                       ELSE header]]
        : b5 \in {write_records(b4, self.resources)} })

\* -------------------------------------------------------------- resolver

Nil == [nil |-> TRUE]

None == [some |-> FALSE]
Some(x) == [some |-> TRUE, v |-> x]

Min(S) == CHOOSE x \in S : \A y \in S : x <= y

\* iter().find_map(..) / iter().filter(..).next(): the first element of seq
\* that satisfies Test
First(seq, Test(_)) ==
    LET hits == { i \in 1..Len(seq) : Test(seq[i]) }
    IN  IF hits = {} THEN None ELSE Some(seq[Min(hits)])

get_random_a(self) ==
    LET IsA(r) == r.type = "A"
        hit == First(self.answers, IsA)
    IN  IF hit.some THEN Some(hit.v.addr) ELSE None

\* the filter of get_ns: an NS record whose owner qname ends with
NsFilterAny(record, qname) == record.type = "NS"
NsFilter(record, qname) == record.type = "NS" /\ EndsWith(qname, record.domain)

\* get_ns: the NS records of the authority section that pass the filter
get_ns(self, qname) ==
    LET Keep(r) == NsFilter(r, qname)
    IN  SelectSeq(self.authorities, Keep)

\* the A records of the additional section whose owner is host
glue_of(self, host) ==
    LET Keep(r) == r.type = "A" /\ r.domain = host
    IN  SelectSeq(self.resources, Keep)

\* get_resolved_ns: flat_map over get_ns, then next()
get_resolved_ns(self, qname) ==
    LET HasGlue(ns) == glue_of(self, ns.host) # <<>>
        hit == First(get_ns(self, qname), HasGlue)
    IN  IF hit.some THEN Some(Head(glue_of(self, hit.v.host)).addr) ELSE None

get_unresolved_ns(self, qname) ==
    LET ns == get_ns(self, qname)
    IN  IF ns = <<>> THEN None ELSE Some(Head(ns).host)

get_cname(self) ==
    LET IsCname(r) == r.type = "CNAME"
    IN  First(self.answers, IsCname)

final_answers(self) ==
    LET IsA(r) == r.type = "A"
    IN  SelectSeq(self.answers, IsA)

merge(self, response) ==
    [self EXCEPT !.answers = self.answers \o response.answers,
                 !.header.rescode = response.header.rescode]

\* ---------------------------------------------------------------- TtlCache
\* The cache maps a name to one record and the instant it expires at. Time
\* is counted in whole seconds: `now` is the second the clock is in, so an
\* entry that expires in the very second of a get may be returned or not.

cache_insert(c, key, value, ttl_secs, t) ==
    { e \in c : e.key # key }
    \cup { [key |-> key, value |-> value, expiration |-> t + ttl_secs] }

\* the entry kept under key (at most one)
cache_entry(c, key) == CHOOSE e \in c : e.key = key

\* whether get(key) can return the entry / can return nothing at second t
ExpiryIgnored(c, key, t) == \E e \in c : e.key = key
cache_get_hits(c, key, t) == \E e \in c : e.key = key /\ t <= e.expiration
cache_get_misses(c, key, t) == \A e \in c : e.key = key => t >= e.expiration

\* ----------------------------------------------------------------- workers

VARIABLES
    now,        \* the clock, in seconds
    cache,      \* the shared TtlCache
    port3000,   \* who holds the socket bound to 0.0.0.0:3000, or "free"
    wk,         \* each worker: where it is in handle_query and its locals
    shadowed    \* history: the entries replaced by an insert, while they last

resolverVars == <<now, cache, port3000, wk, shadowed>>

Workers == {"udp", "tcp"}

is_udp_of(w) == w = "udp"

RootServer == <<198, 41, 0, 4>>

NameA  == <<97>>                \* "a"
NameWA == <<119, 46, 97>>       \* "w.a"
NameNA == <<110, 46, 97>>       \* "n.a"
NameMA == <<109, 46, 97>>       \* "m.a"

Addr1 == <<1, 2, 3, 4>>
Addr2 == <<203, 0, 113, 10>>
Addr3 == <<203, 0, 113, 11>>
Addr6 == <<8193, 3512, 0, 0, 0, 0, 0, 1>>

\* requests, as received bytes: A w.a; CNAME w.a; no question; a question
\* whose name is a pointer to itself; one whose name points past the buffer
ReqA     == <<18, 52, 1, 0, 0, 1, 0, 0, 0, 0, 0, 0, 1, 119, 1, 97, 0, 0, 1, 0, 1>>
ReqCNAME == <<18, 53, 1, 0, 0, 1, 0, 0, 0, 0, 0, 0, 1, 119, 1, 97, 0, 0, 5, 0, 1>>
ReqNoQ   == <<0, 7, 1, 0, 0, 0, 0, 0, 0, 0, 0, 0>>
ReqLoop  == <<0, 9, 1, 0, 0, 1, 0, 0, 0, 0, 0, 0, 192, 12>>
ReqFar   == <<0, 10, 1, 0, 0, 1, 0, 0, 0, 0, 0, 0, 255, 255>>

Requests == {ReqA, ReqCNAME, ReqNoQ, ReqLoop, ReqFar}

\* a reply as DnsPacket::from_buffer returns it
Reply(rescode, answers, authorities, resources) ==
    [header |-> [DnsHeader_new EXCEPT !.id = 6666, !.response = TRUE,
                                      !.rescode = rescode,
                                      !.answers = Len(answers),
                                      !.authoritative_entries = Len(authorities),
                                      !.resource_entries = Len(resources)],
     questions |-> <<>>, answers |-> answers, authorities |-> authorities,
     resources |-> resources]

\* the replies an upstream server may give: an answer, an alias, a negative
\* answer, a delegation with glue (an NS record of another zone, then two
\* candidates), a delegation with glue and an MX answer for the name, a
\* delegation without glue, the nameserver's address, and an empty reply
ReplyA      == Reply("NOERROR", <<RecA(NameWA, Addr1, 1)>>, <<>>, <<>>)
ReplyCNAME  == Reply("NOERROR", <<RecCNAME(NameWA, NameA, 2)>>, <<>>, <<>>)
ReplyNX     == Reply("NXDOMAIN", <<>>, <<>>, <<>>)
ReplyGlue   == Reply("NOERROR", <<>>,
                     <<RecNS(NameNA, NameMA, 2), RecNS(NameA, NameNA, 2),
                       RecNS(NameA, NameMA, 2)>>,
                     <<RecA(NameMA, Addr3, 2), RecA(NameNA, Addr2, 2)>>)
ReplyMXGlue == Reply("NOERROR", <<RecMX(NameWA, 10, NameNA, 1)>>,
                     <<RecNS(NameA, NameNA, 2)>>, <<RecA(NameNA, Addr2, 2)>>)
ReplyNoGlue == Reply("NOERROR", <<>>, <<RecNS(NameA, NameNA, 2)>>, <<>>)
ReplyNSAddr == Reply("NOERROR", <<RecA(NameNA, Addr2, 2)>>, <<>>, <<>>)
ReplyEmpty  == Reply("NOERROR", <<>>, <<>>, <<>>)

Replies ==
    {ReplyA, ReplyCNAME, ReplyNX, ReplyGlue, ReplyMXGlue, ReplyNoGlue,
     ReplyNSAddr, ReplyEmpty}

\* replies that do not parse: an answer whose name is a pointer to itself,
\* and one whose name points past the buffer
MalformedReplies ==
    { <<26, 10, 129, 128, 0, 0, 0, 1, 0, 0, 0, 0, 192, 12>>,
      <<26, 10, 129, 128, 0, 0, 0, 1, 0, 0, 0, 0, 255, 255>> }

IdleWorker ==
    [pc |-> "idle", req |-> <<>>, question |-> Nil, stack |-> <<>>,
     resp |-> Nil, idx |-> 0, packet |-> Nil, out |-> Nil, steps |-> 0,
     hopfail |-> FALSE, sentq |-> Nil, expect |-> Nil, lastget |-> Nil,
     cname_hop |-> Nil]

\* history: the last cache get, the last query sent and the last CNAME
\* response answered with are kept for one step
Quiet(self) == [self EXCEPT !.lastget = Nil, !.sentq = Nil, !.cname_hop = Nil]

\* the locals of one recursive_lookup call
Frame(qname, qtype, acc) ==
    [qname |-> qname, qtype |-> qtype, ns |-> RootServer, acc |-> acc]

Top(stack) == stack[Len(stack)]

SetTop(stack, frame) == [stack EXCEPT ![Len(stack)] = frame]

\* the packet lookup builds before it asks the cache
lookup_packet(qname, qtype) ==
    [DnsPacket_new EXCEPT !.header.id = 6666, !.header.questions = 1,
                          !.header.recursion_desired = TRUE,
                          !.questions = <<DnsQuestion_new(qname, qtype)>>]

\* recursive_lookup returned Ok to handle_query
finish_ok(self) ==
    LET packet == self.stack[1].acc
    IN  [self EXCEPT
           !.pc = "respond", !.stack = <<>>,
           !.packet = [packet EXCEPT
                         !.questions = Append(packet.questions, self.question)]]

\* an Err raised in lookup reaches handle_query through every `?`
finish_err(self) ==
    LET packet == self.stack[1].acc
    IN  [self EXCEPT
           !.pc = "respond", !.stack = <<>>, !.hopfail = TRUE,
           !.packet = [packet EXCEPT !.header.rescode = "SERVFAIL"]]

\* the top call returns Ok: its caller, if any, takes an address from the
\* callee's accumulator and loops, or merges it and returns Ok in its turn
RECURSIVE unwind(_)
unwind(stack) ==
    IF Len(stack) = 1 THEN [stack |-> stack, done |-> TRUE]
    ELSE LET callee == Top(stack)
             rest   == SubSeq(stack, 1, Len(stack) - 1)
             caller == Top(rest)
             new_ns == get_random_a(callee.acc)
         IN  IF new_ns.some
             THEN [stack |-> SetTop(rest, [caller EXCEPT !.ns = new_ns.v]),
                   done |-> FALSE]
             ELSE unwind(SetTop(rest, [caller EXCEPT
                                          !.acc = merge(caller.acc, callee.acc)]))

return_ok(self) ==
    The({ IF u.done THEN finish_ok([self EXCEPT !.stack = u.stack])
          ELSE [self EXCEPT !.stack = u.stack, !.pc = "lookup"]
          : u \in {unwind(self.stack)} })

\* whether additional record k of a reply is glue for authority record i:
\* i is an NS record whose owner qname ends with, k an A record for its host
IsGlue(response, qname, i, k) ==
    /\ response.authorities[i].type = "NS"
    /\ EndsWith(qname, response.authorities[i].domain)
    /\ response.resources[k].type = "A"
    /\ response.resources[k].domain = response.authorities[i].host

\* the glue addresses of a reply for qname; empty unless the reply is a
\* delegation: no A answer, no CNAME answer, not NXDOMAIN
GlueOffered(response, qname) ==
    IF \/ \E i \in 1..Len(response.answers) :
              response.answers[i].type \in {"A", "CNAME"}
       \/ response.header.rescode = "NXDOMAIN"
    THEN {}
    ELSE { response.resources[k].addr :
             k \in { j \in 1..Len(response.resources) :
                       \E i \in 1..Len(response.authorities) :
                          IsGlue(response, qname, i, j) } }

\* the first glue address: of the first authority record that has glue, the
\* first additional record that is glue for it
FirstGlue(response, qname) ==
    LET i == Min({ n \in 1..Len(response.authorities) :
                     \E k \in 1..Len(response.resources) :
                        IsGlue(response, qname, n, k) })
        k == Min({ n \in 1..Len(response.resources) :
                     IsGlue(response, qname, i, n) })
    IN  response.resources[k].addr

\* history: what a reply that offers glue lets one expect of the next query
\* (the addresses offered, the first of them, whether the cache answered a
\* lookup since); a reply from the cache offers nothing
Expecting(self, response, from_cache) ==
    LET frame   == Top(self.stack)
        offered == GlueOffered(response, frame.qname)
    IN  IF from_cache
        THEN IF self.expect = Nil THEN self
             ELSE [self EXCEPT !.expect.cached = TRUE]
        ELSE IF offered = {} THEN self
        ELSE [self EXCEPT !.expect =
                 [servers |-> offered,
                  server |-> FirstGlue(response, frame.qname),
                  qname |-> frame.qname, qtype |-> frame.qtype,
                  cached |-> FALSE]]

\* history: recursive_lookup returns for qtype CNAME on a response that has
\* a CNAME answer and no A answer; the response's CNAME record and rcode
CnameHop(self, response) ==
    IF final_answers(response) # <<>> THEN self
    ELSE [self EXCEPT !.cname_hop = [cname |-> get_cname(response).v,
                                     rescode |-> response.header.rescode]]

\* recursive_lookup's loop body after `let response = lookup(..)?`
after_lookup(self, response) ==
    LET frame  == Top(self.stack)
        merged == [self EXCEPT !.stack =
                      SetTop(self.stack,
                             [frame EXCEPT !.acc = merge(frame.acc, response)])]
        cname  == get_cname(response)
        glue   == get_resolved_ns(response, frame.qname)
        nsname == get_unresolved_ns(response, frame.qname)
    IN  IF final_answers(response) # <<>> /\ response.header.rescode = "NOERROR"
        THEN return_ok(merged)
        ELSE IF cname.some
        THEN IF frame.qtype = QT("CNAME") THEN return_ok(CnameHop(self, response))
             ELSE [self EXCEPT
                     !.stack = SetTop(self.stack,
                                      Frame(cname.v.host, QT("A"),
                                            merge(frame.acc, response))),
                     !.steps = self.steps + 1,
                     !.pc = "lookup"]
        ELSE IF response.header.rescode = "NXDOMAIN" THEN return_ok(merged)
        ELSE IF glue.some
        THEN [self EXCEPT !.stack = SetTop(self.stack, [frame EXCEPT !.ns = glue.v]),
                          !.pc = "lookup"]
        ELSE IF ~nsname.some THEN return_ok(merged)
        ELSE [self EXCEPT
                !.stack = Append(self.stack, Frame(nsname.v, QT("A"), DnsPacket_new)),
                !.steps = self.steps + 1,
                !.pc = "lookup"]

\* history: the entry an insert replaces is remembered while its lifetime runs
Shadow(h, c, key, t) ==
    { e \in h : e.key # key /\ e.expiration > t }
    \cup { e \in c : e.key = key /\ e.expiration > t }

\* history: what the cache and the entries replaced held under key
Held(c, h, key) == [latest |-> { e \in c : e.key = key },
                    replaced |-> { e \in h : e.key = key }]

ResolverInit ==
    /\ now = 0
    /\ cache = {}
    /\ port3000 = "free"
    /\ wk = [w \in Workers |-> IdleWorker]
    /\ shadowed = {}

\* handle_udp_query / handle_tcp_query: a request is received
Receive(w, requests) ==
    /\ wk[w].pc = "idle"
    /\ \E r \in requests :
          wk' = [wk EXCEPT ![w] = [IdleWorker EXCEPT !.pc = "handle", !.req = r]]
    /\ UNCHANGED <<now, cache, port3000, shadowed, codecVars, qnameVars>>

\* handle_query up to its first lookup
HandleQuery(w) ==
    /\ wk[w].pc = "handle"
    /\ wk' = [wk EXCEPT ![w] = The({
          LET self == Quiet(wk[w])
              request == r.v
              packet == [DnsPacket_new EXCEPT
                           !.header.id = request.header.id,
                           !.header.recursion_desired = TRUE,
                           !.header.recursion_available = TRUE,
                           !.header.response = TRUE]
          IN  CASE r.b.st = "panic" ->
                     [self EXCEPT !.pc = "dead", !.out = [kind |-> "panic"]]
                [] r.b.st = "err" ->
                     [self EXCEPT !.pc = "done", !.out = [kind |-> "error"]]
                [] request.questions = <<>> ->
                     [self EXCEPT
                        !.pc = "respond",
                        !.packet = [packet EXCEPT !.header.rescode = "FORMERR"]]
                [] OTHER ->
                     LET question == request.questions[Len(request.questions)]
                     IN  [self EXCEPT
                            !.question = question,
                            !.stack = <<Frame(question.name, question.qtype, packet)>>,
                            !.pc = "lookup"]
          : r \in {DnsPacket_from_buffer(BufferOf(wk[w].req))} })]
    /\ UNCHANGED <<now, cache, port3000, shadowed, codecVars, qnameVars>>

\* lookup: the cache holds the name, the record is the reply
CacheHit(w, cap) ==
    /\ wk[w].pc = "lookup"
    /\ wk[w].steps < cap
    /\ LET self == Quiet(wk[w])
           frame == Top(self.stack)
       IN  /\ cache_get_hits(cache, frame.qname, now)
           /\ LET cached == cache_entry(cache, frame.qname).value
                  packet == [lookup_packet(frame.qname, frame.qtype) EXCEPT
                                !.answers = <<cached>>]
              IN  wk' = [wk EXCEPT ![w] =
                     after_lookup(
                        Expecting([self EXCEPT
                                     !.steps = self.steps + 1,
                                     !.lastget = [key |-> frame.qname, at |-> now,
                                                  hit |-> Some(cached),
                                                  held |-> Held(cache, shadowed,
                                                                frame.qname)]],
                                  packet, TRUE),
                        packet)]
    /\ UNCHANGED <<now, cache, port3000, shadowed, codecVars, qnameVars>>

\* lookup: the cache does not hold the name, the query is written
CacheMiss(w, cap) ==
    /\ wk[w].pc = "lookup"
    /\ wk[w].steps < cap
    /\ LET frame == Top(wk[w].stack)
           self == [Quiet(wk[w]) EXCEPT
                      !.steps = wk[w].steps + 1,
                      !.lastget = [key |-> frame.qname, at |-> now,
                                   hit |-> None,
                                   held |-> Held(cache, shadowed, frame.qname)]]
       IN  /\ cache_get_misses(cache, frame.qname, now)
           /\ wk' = [wk EXCEPT ![w] = The({
                 CASE req_buf.st = "ok" -> [self EXCEPT !.pc = "bind"]
                   [] req_buf.st = "err" -> finish_err(self)
                   [] OTHER -> [self EXCEPT !.pc = "dead",
                                            !.out = [kind |-> "panic"]]
                 : req_buf \in {DnsPacket_write(lookup_packet(frame.qname,
                                                              frame.qtype),
                                                NewBuffer, is_udp_of(w)).b} })]
    /\ UNCHANGED <<now, cache, port3000, shadowed, codecVars, qnameVars>>

\* lookup: the socket is bound to port 3000 and the query sent to (ns, 53)
SendQuery(w) ==
    /\ wk[w].pc = "bind"
    /\ port3000 = "free"
    /\ port3000' = w
    /\ LET self == Quiet(wk[w])
           frame == Top(self.stack)
       IN  wk' = [wk EXCEPT ![w] =
              [self EXCEPT
                 !.pc = "recv",
                 !.sentq = [server |-> frame.ns, port |-> 53,
                            qname |-> frame.qname, qtype |-> frame.qtype,
                            expect |-> self.expect],
                 !.expect = Nil]]
    /\ UNCHANGED <<now, cache, shadowed, codecVars, qnameVars>>

\* lookup: another worker's socket holds port 3000, bind returns an error
BindFails(w) ==
    /\ wk[w].pc = "bind"
    /\ port3000 # "free"
    /\ wk' = [wk EXCEPT ![w] = finish_err(Quiet(wk[w]))]
    /\ UNCHANGED <<now, cache, port3000, shadowed, codecVars, qnameVars>>

\* lookup: a reply is received and parsed; without answers there is nothing
\* to insert and recursive_lookup goes on
RecvReply(w, replies) ==
    /\ wk[w].pc = "recv"
    /\ \E r \in replies :
          IF r.answers = <<>>
          THEN /\ wk' = [wk EXCEPT ![w] =
                    after_lookup(Expecting(Quiet(wk[w]), r, FALSE), r)]
               /\ port3000' = "free"
          ELSE /\ wk' = [wk EXCEPT ![w] = [Quiet(wk[w]) EXCEPT !.pc = "insert",
                                                       !.resp = r, !.idx = 1]]
               /\ UNCHANGED port3000
    /\ UNCHANGED <<now, cache, shadowed, codecVars, qnameVars>>

\* lookup: the reply received does not parse
RecvMalformed(w) ==
    /\ wk[w].pc = "recv"
    /\ \E bytes \in MalformedReplies :
          wk' = [wk EXCEPT ![w] =
             IF DnsPacket_from_buffer(BufferOf(bytes)).b.st = "err"
             THEN finish_err(Quiet(wk[w]))
             ELSE [Quiet(wk[w]) EXCEPT !.pc = "dead", !.out = [kind |-> "panic"]]]
    /\ port3000' = "free"
    /\ UNCHANGED <<now, cache, shadowed, codecVars, qnameVars>>

\* lookup: one answer of the reply is inserted under its owner name; after
\* the last one lookup returns and recursive_lookup goes on
InsertAnswer(w) ==
    /\ wk[w].pc = "insert"
    /\ LET self == Quiet(wk[w])
           ans == self.resp.answers[self.idx]
       IN  /\ cache' = cache_insert(cache, DnsRecord_domain(ans), ans,
                                    DnsRecord_ttl(ans), now)
           /\ shadowed' = Shadow(shadowed, cache, DnsRecord_domain(ans), now)
           /\ IF self.idx = Len(self.resp.answers)
              THEN /\ wk' = [wk EXCEPT ![w] =
                        after_lookup(Expecting([self EXCEPT !.resp = Nil, !.idx = 0],
                                               self.resp, FALSE),
                                     self.resp)]
                   /\ port3000' = "free"
              ELSE /\ wk' = [wk EXCEPT ![w] = [self EXCEPT !.idx = self.idx + 1]]
                   /\ UNCHANGED port3000
    /\ UNCHANGED <<now, codecVars, qnameVars>>

\* handle_query from `let mut res_buffer` on: the packet is written and the
\* worker sends the bytes; an Err of write is returned, a panic ends the thread
Respond(w) ==
    /\ wk[w].pc = "respond"
    /\ wk' = [wk EXCEPT ![w] =
          The({ CASE res.b.st = "ok" ->
                       [Quiet(wk[w]) EXCEPT
                          !.pc = "done", !.packet = Nil,
                          !.out = [kind |-> "response", bytes |-> res.b.data,
                                   packet |-> res.v]]
                  [] res.b.st = "err" ->
                       [Quiet(wk[w]) EXCEPT !.pc = "done", !.packet = Nil,
                                            !.out = [kind |-> "error"]]
                  [] OTHER ->
                       [Quiet(wk[w]) EXCEPT !.pc = "dead", !.packet = Nil,
                                            !.out = [kind |-> "panic"]]
                : res \in {DnsPacket_write(wk[w].packet, NewBuffer, is_udp_of(w))} })]
    /\ UNCHANGED <<now, cache, port3000, shadowed, codecVars, qnameVars>>

\* the worker is ready for its next request: the UDP worker loops, a TCP
\* thread ends and the next connection gets a new one; a UDP worker that
\* panicked is gone
NextRequest(w) ==
    /\ \/ wk[w].pc = "done"
       \/ wk[w].pc = "dead" /\ w = "tcp"
    /\ wk' = [wk EXCEPT ![w] = IdleWorker]
    /\ UNCHANGED <<now, cache, port3000, shadowed, codecVars, qnameVars>>

MaxTime == 2

\* a second passes; the entries replaced whose lifetime is over are forgotten
Tick ==
    /\ now < MaxTime
    /\ now' = now + 1
    /\ shadowed' = { e \in shadowed : e.expiration > now + 1 }
    /\ UNCHANGED <<cache, port3000, wk, codecVars, qnameVars>>

MaxSteps == 4

DeepSteps == 18

\* ---------------------------------------------------------- codec harness
\* The codec is pure: the harness hands each encoder a value drawn from a
\* bounded set, keeps the bytes it emitted, and hands them to the decoder.



HeaderInputs ==
    { [id |-> i, recursion_desired |-> f[1], truncated_message |-> f[2],
       authoritative_answer |-> f[3], opcode |-> o, response |-> f[4],
       rescode |-> rc, checking_disabled |-> f[5], authed_data |-> f[6],
       z |-> f[7], recursion_available |-> f[8], questions |-> c[1],
       answers |-> c[2], authoritative_entries |-> c[3],
       resource_entries |-> c[4]] :
         i \in {4660, 65535}, f \in [1..8 -> BOOLEAN], o \in {0, 15},
         rc \in {"NOERROR", "REFUSED"}, c \in {<<0, 0, 0, 0>>, <<1, 2, 3, 260>>} }

TtlInputs == {0, 255, 256, 3600, 2147483647}

RecordInputs ==
    UNION { { RecA(d, a, t) : a \in {Addr1, Addr2} }
            \cup { RecAAAA(d, Addr6, t) }
            \cup { RecNS(d, NameNA, t), RecCNAME(d, NameNA, t) }
            \cup { RecMX(d, p, NameNA, t) : p \in {0, 10, 65535} } :
              d \in {NameA, NameWA}, t \in TtlInputs }

\* the records the sections of the packets are drawn from
SectionRecords ==
    { RecA(NameA, Addr1, 60), RecAAAA(NameA, Addr6, 60), RecNS(NameA, NameNA, 60),
      RecCNAME(NameWA, NameA, 60), RecMX(NameA, 10, NameNA, 60),
      RecUNKNOWN(NameA, 16, 0, 60), RecA(NameA, Addr1, 3600) }

Sections == {<<>>} \cup { <<r>> : r \in SectionRecords }

\* n copies of a record: a section long enough to pass 512 bytes
Repeat(rec, n) == [i \in 1..n |-> rec]

BigSections == { Repeat(RecA(NameA, Addr1, 60), n) : n \in {29, 30, 40} }

PacketInputs ==
    { [header |-> [DnsHeader_new EXCEPT !.id = 4660, !.truncated_message = tc,
                                        !.questions = 7],
       questions |-> q, answers |-> an, authorities |-> au, resources |-> re] :
         tc \in BOOLEAN,
         q \in {<<>>, <<DnsQuestion_new(NameWA, QT("A"))>>},
         an \in Sections \cup BigSections,
         au \in {<<>>, <<RecNS(NameA, NameNA, 60)>>, <<RecUNKNOWN(NameA, 16, 0, 60)>>},
         re \in {<<>>, <<RecA(NameNA, Addr2, 60)>>, <<RecAAAA(NameNA, Addr6, 60)>>} }

CodecInit ==
    /\ cphase = "idle"
    /\ cin = Nil
    /\ cudp = FALSE
    /\ cbuf = NewBuffer
    /\ cout = Nil

HeaderWrite ==
    /\ cphase = "idle"
    /\ \E h \in HeaderInputs :
          /\ cin' = h
          /\ cbuf' = DnsHeader_write(h, NewBuffer)
    /\ cphase' = "header_written"
    /\ UNCHANGED <<cudp, cout, qnameVars, resolverVars>>

HeaderRead ==
    /\ cphase = "header_written"
    /\ cbuf.st = "ok"
    /\ cout' = DnsHeader_readVal(DnsHeader_new, BufferOf(cbuf.data))
    /\ cphase' = "header_read"
    /\ UNCHANGED <<cin, cudp, cbuf, qnameVars, resolverVars>>

RecordWrite ==
    /\ cphase = "idle"
    /\ \E r \in RecordInputs :
          /\ cin' = r
          /\ cbuf' = DnsRecord_write(r, NewBuffer)
    /\ cphase' = "record_written"
    /\ UNCHANGED <<cudp, cout, qnameVars, resolverVars>>

RecordRead ==
    /\ cphase = "record_written"
    /\ cbuf.st = "ok"
    /\ cout' = DnsRecord_readBoth(BufferOf(cbuf.data))
    /\ cphase' = "record_read"
    /\ UNCHANGED <<cin, cudp, cbuf, qnameVars, resolverVars>>

PacketWrite ==
    /\ cphase = "idle"
    /\ \E p \in PacketInputs, is_udp \in BOOLEAN :
          /\ cin' = p
          /\ cudp' = is_udp
          /\ cbuf' = DnsPacket_write(p, NewBuffer, is_udp).b
    /\ cphase' = "packet_written"
    /\ UNCHANGED <<cout, qnameVars, resolverVars>>

PacketRead ==
    /\ cphase = "packet_written"
    /\ cbuf.st = "ok"
    /\ cout' = DnsPacket_from_buffer(BufferOf(cbuf.data))
    /\ cphase' = "packet_read"
    /\ UNCHANGED <<cin, cudp, cbuf, qnameVars, resolverVars>>

CodecReset ==
    /\ cphase \in {"header_read", "record_read", "packet_read"}
    /\ cphase' = "idle"
    /\ cin' = Nil
    /\ cudp' = FALSE
    /\ cbuf' = NewBuffer
    /\ cout' = Nil
    /\ UNCHANGED <<qnameVars, resolverVars>>

CodecNext ==
    \/ HeaderWrite
    \/ HeaderRead
    \/ RecordWrite
    \/ RecordRead
    \/ PacketWrite
    \/ PacketRead
    \/ CodecReset

\* ------------------------------------------------------ read_qname harness
\* every value of QueryType: the five named variants and UNKNOWN(n) for
\* every u16 n
QueryTypes ==
    { QT(t) : t \in {"A", "NS", "CNAME", "MX", "AAAA"} }
        \cup { QT_UNKNOWN(n) : n \in 0..65535 }

\* x.to_num() for some QueryType x
QtypeToNum ==
    /\ cphase = "idle"
    /\ \E x \in QueryTypes :
          /\ cin' = x
          /\ cout' = to_num(x)
    /\ cphase' = "qtype_num"
    /\ UNCHANGED <<cudp, cbuf, qnameVars, resolverVars>>

\* QueryType::from_num on the number to_num returned
QtypeFromNum ==
    /\ cphase = "qtype_num"
    /\ cout' = from_num(cout)
    /\ cphase' = "qtype_back"
    /\ UNCHANGED <<cin, cudp, cbuf, qnameVars, resolverVars>>

QtypeNext == QtypeToNum \/ QtypeFromNum

\* the calls made on one BytePacketBuffer before the next one is made
MaxOps == 3

\* offsets and lengths as received bytes give them: inside the buffer, its
\* last byte, one past it, the largest 14-bit pointer offset, and the
\* largest RDLENGTH
Offsets == {0, BUF_LEN - 1, BUF_LEN, 16383}
Lengths == {1, 2, 65535}

\* the calls made on the buffer so far
OpsDone == IF cin = Nil THEN 0 ELSE cin.n

\* the buffer takes one more call: no call on it has panicked
BufLive == cphase \in {"idle", "buffer"} /\ cbuf.st = "ok" /\ OpsDone < MaxOps

\* history: the call made, the position it was given and the length of its access
BufCall(op, at, len) == [op |-> op, at |-> at, len |-> len, n |-> OpsDone + 1]

BufStep ==
    /\ BufLive
    /\ \E steps \in Lengths :
          /\ cbuf' = step(cbuf, steps)
          /\ cin' = BufCall("step", cbuf.pos, 0)
    /\ cphase' = "buffer"
    /\ UNCHANGED <<cudp, cout, qnameVars, resolverVars>>

BufSeek ==
    /\ BufLive
    /\ \E pos \in Offsets :
          /\ cbuf' = seek(cbuf, pos)
          /\ cin' = BufCall("seek", pos, 0)
    /\ cphase' = "buffer"
    /\ UNCHANGED <<cudp, cout, qnameVars, resolverVars>>

BufRead ==
    /\ BufLive
    /\ cbuf' = read(cbuf)
    /\ cout' = readVal(cbuf)
    /\ cin' = BufCall("read", cbuf.pos, 1)
    /\ cphase' = "buffer"
    /\ UNCHANGED <<cudp, qnameVars, resolverVars>>

BufGet ==
    /\ BufLive
    /\ \E pos \in Offsets :
          /\ cbuf' = get(cbuf, pos)
          /\ cout' = getVal(cbuf, pos)
          /\ cin' = BufCall("get", pos, 1)
    /\ cphase' = "buffer"
    /\ UNCHANGED <<cudp, qnameVars, resolverVars>>

BufGetRange ==
    /\ BufLive
    /\ \E start \in Offsets, len \in {1, 2} :
          /\ cbuf' = get_range(cbuf, start, len)
          /\ cout' = get_rangeVal(cbuf, start, len)
          /\ cin' = BufCall("get_range", start, len)
    /\ cphase' = "buffer"
    /\ UNCHANGED <<cudp, qnameVars, resolverVars>>

BufWrite ==
    /\ BufLive
    /\ cbuf' = write(cbuf, 255)
    /\ cin' = BufCall("write", cbuf.pos, 1)
    /\ cphase' = "buffer"
    /\ UNCHANGED <<cudp, cout, qnameVars, resolverVars>>

BufSet ==
    /\ BufLive
    /\ \E pos \in Offsets :
          /\ cbuf' = set(cbuf, pos, 255)
          /\ cin' = BufCall("set", pos, 1)
    /\ cphase' = "buffer"
    /\ UNCHANGED <<cudp, cout, qnameVars, resolverVars>>

\* the next request or reply gets a buffer of its own
BufNew ==
    /\ cphase = "buffer"
    /\ cphase' = "idle"
    /\ cin' = Nil
    /\ cbuf' = NewBuffer
    /\ cout' = Nil
    /\ UNCHANGED <<cudp, qnameVars, resolverVars>>

BufNext ==
    \/ BufStep
    \/ BufSeek
    \/ BufRead
    \/ BufGet
    \/ BufGetRange
    \/ BufWrite
    \/ BufSet
    \/ BufNew

\* read_qname runs on buffers made of two-byte cells: a pointer to the next
\* cell, a pointer to the cell itself, a pointer past the end of the buffer,
\* the label "a", or the terminator. The rest of the buffer is zero.

MaxCells == 6

CellKinds == {"next", "self", "far", "label", "end"}

CellBytes(kind, i) ==
    CASE kind = "next"  -> <<192, 2 * (i + 1)>>
      [] kind = "self"  -> <<192, 2 * i>>
      [] kind = "far"   -> <<255, 255>>
      [] kind = "label" -> <<1, 65>>
      [] kind = "end"   -> <<0, 0>>

CellBuffer(kinds) ==
    BufferOf([j \in 1..(2 * Len(kinds)) |->
                CellBytes(kinds[(j + 1) \div 2], (j - 1) \div 2)[2 - (j % 2)]])

QnameIdle ==
    /\ qbuf = NewBuffer
    /\ qs = read_qname_start(NewBuffer)

QnameInit ==
    /\ qbuf \in { CellBuffer(k) : k \in [1..MaxCells -> CellKinds] }
    /\ qs = read_qname_start(qbuf)

ReadQnameIter ==
    /\ qs.run
    /\ qs' = read_qname_iter(qs)
    /\ UNCHANGED <<qbuf, codecVars, resolverVars>>

vars == <<codecVars, qnameVars, resolverVars>>

Init == CodecInit /\ QnameIdle /\ ResolverInit

SpecCodec == Init /\ [][CodecNext]_vars

\* to_num and from_num, one after the other, on every QueryType
SpecQtype == Init /\ [][QtypeNext]_vars

\* the calls of BytePacketBuffer, in any order, on offsets around its end
SpecBuffer == Init /\ [][BufNext]_vars

InitQname == CodecInit /\ QnameInit /\ ResolverInit

\* read_qname is a loop of one thread: it keeps taking iterations
SpecQname == InitQname /\ [][ReadQnameIter]_vars /\ WF_vars(ReadQnameIter)

\* ------------------------------------------------------------- the server

\* the replies given while two workers run: an answer, an alias, a
\* delegation with glue
SharedRequests == {ReqA, ReqNoQ}
SharedReplies == {ReplyA, ReplyCNAME, ReplyGlue}

Next ==
    \/ Tick
    \/ \E w \in Workers :
          \/ Receive(w, SharedRequests)
          \/ HandleQuery(w)
          \/ CacheHit(w, MaxSteps)
          \/ CacheMiss(w, MaxSteps)
          \/ SendQuery(w)
          \/ BindFails(w)
          \/ RecvReply(w, SharedReplies)
          \/ RecvMalformed(w)
          \/ InsertAnswer(w)
          \/ Respond(w)
          \/ NextRequest(w)

\* the UDP worker and a TCP worker, sharing the cache and port 3000
Spec == Init /\ [][Next]_vars

NextOne ==
    \/ Tick
    \/ Receive("udp", Requests)
    \/ HandleQuery("udp")
    \/ CacheHit("udp", MaxSteps)
    \/ CacheMiss("udp", MaxSteps)
    \/ SendQuery("udp")
    \/ RecvReply("udp", Replies)
    \/ RecvMalformed("udp")
    \/ InsertAnswer("udp")
    \/ Respond("udp")
    \/ NextRequest("udp")

\* the UDP worker alone, whatever it receives
SpecOne == Init /\ [][NextOne]_vars

DeepRequests == {ReqA, ReqCNAME}
DeepReplies == {ReplyA, ReplyCNAME, ReplyGlue}

NextDeep ==
    \/ Receive("udp", DeepRequests)
    \/ HandleQuery("udp")
    \/ CacheHit("udp", DeepSteps)
    \/ CacheMiss("udp", DeepSteps)
    \/ SendQuery("udp")
    \/ RecvReply("udp", DeepReplies)
    \/ RecvMalformed("udp")
    \/ InsertAnswer("udp")
    \/ Respond("udp")
    \/ NextRequest("udp")

\* the UDP worker alone, followed over a long resolution
SpecDeep == Init /\ [][NextDeep]_vars

\* ================================================================= claims

\* the id a message carries in its first two bytes, and the rcode of a
\* response: the low four bits of its fourth byte
EmittedId(bytes) == bytes[1] * 256 + bytes[2]
EmittedRcode(bytes) == bytes[4] % 16

\* C1: every request handed to handle_query gets a response that carries
\* the request's id, with rcode SERVFAIL (2) when the resolution hit an
\* error; handle_query never returns an error and never aborts the worker.
C1_EveryRequestAnswered ==
    \A w \in Workers :
       wk[w].pc \in {"done", "dead"} =>
          /\ wk[w].out.kind = "response"
          /\ EmittedId(wk[w].out.bytes) = EmittedId(wk[w].req)
          /\ wk[w].hopfail => EmittedRcode(wk[w].out.bytes) = 2

\* C2: the loop iterations and the nested recursive_lookup calls made for
\* one request never exceed 16 together.
C2_BoundedResolution == \A w \in Workers : wk[w].steps <= 16

\* C3: a lookup that fails at one hop (bind, send or receive error, reply
\* that does not parse) does not make recursive_lookup return an error: the
\* response of that request does not get rcode SERVFAIL for it.
C3_HopFailureTolerated ==
    \A w \in Workers :
       wk[w].hopfail =>
          /\ wk[w].pc = "respond" => wk[w].packet.header.rescode # "SERVFAIL"
          /\ (wk[w].pc = "done" /\ wk[w].out.kind = "response") =>
                wk[w].out.packet.header.rescode # "SERVFAIL"

C4_WitnessExpired ==
    \E w \in Workers :
       /\ wk[w].lastget # Nil
       /\ ~wk[w].lastget.hit.some
       /\ \E e \in wk[w].lastget.held.latest : wk[w].lastget.at > e.expiration

\* C6, as stated: after a reply that delegates with glue, the next query
\* the resolution sends goes to a glue address of that reply on port 53,
\* for the same qname and qtype.
C6_GlueFollowed ==
    \A w \in Workers :
       (wk[w].sentq # Nil /\ wk[w].sentq.expect # Nil) =>
          /\ wk[w].sentq.server \in wk[w].sentq.expect.servers
          /\ wk[w].sentq.port = 53
          /\ wk[w].sentq.qname = wk[w].sentq.expect.qname
          /\ wk[w].sentq.qtype = wk[w].sentq.expect.qtype

\* C6, amended: after a reply that delegates with glue, the next lookup is
\* for the same qname, and unless the cache answers a lookup first, the
\* next query goes to the first glue address (of the first NS record of the
\* authority section that has glue, the first A record for its host in the
\* additional section) on port 53, for the same qname and qtype.
C6_GlueFollowedUnlessCached ==
    \A w \in Workers :
       /\ (wk[w].lastget # Nil /\ wk[w].expect # Nil /\ ~wk[w].expect.cached) =>
             wk[w].lastget.key = wk[w].expect.qname
       /\ (wk[w].sentq # Nil /\ wk[w].sentq.expect # Nil
               /\ ~wk[w].sentq.expect.cached) =>
             /\ wk[w].sentq.server = wk[w].sentq.expect.server
             /\ wk[w].sentq.port = 53
             /\ wk[w].sentq.qname = wk[w].sentq.expect.qname
             /\ wk[w].sentq.qtype = wk[w].sentq.expect.qtype

\* a query was sent to the first glue address of the delegation before it,
\* which offered another address too
C6_Witness ==
    \E w \in Workers :
       /\ wk[w].sentq # Nil /\ wk[w].sentq.expect # Nil
       /\ ~wk[w].sentq.expect.cached
       /\ wk[w].sentq.server = Addr2
       /\ wk[w].sentq.expect.servers = {Addr2, Addr3}

\* after a delegation with glue the cache answered the next lookup, and the
\* next query went to the root server for another name
C6_WitnessCached ==
    \E w \in Workers :
       /\ wk[w].sentq # Nil /\ wk[w].sentq.expect # Nil
       /\ wk[w].sentq.expect.cached
       /\ wk[w].sentq.server = RootServer
       /\ wk[w].sentq.qname # wk[w].sentq.expect.qname

\* the TC bit of the emitted header: bit 1 of byte A, the byte at offset 2
EmittedTC(bytes) == Bit(bytes[3], 1)

\* C5: a packet written with is_udp whose serialization exceeds 512 bytes has
\* TC = 1 in the emitted bytes, and a packet written without is_udp has
\* TC = 0, whatever truncated_message held before the call.
C5_TCBit ==
    (cphase = "packet_written" /\ cbuf.st = "ok") =>
        /\ (cudp /\ Len(cbuf.data) > 512) => EmittedTC(cbuf.data) = 1
        /\ ~cudp => EmittedTC(cbuf.data) = 0

\* the u16 at offset p of the emitted bytes
EmittedU16(bytes, p) == bytes[p + 1] * 256 + bytes[p + 2]

SameSections(p, q) ==
    /\ p.questions = q.questions
    /\ p.answers = q.answers
    /\ p.authorities = q.authorities
    /\ p.resources = q.resources

\* C7: after DnsPacket::write the four counts of the emitted header are the
\* lengths of the packet's sections, and from_buffer on the emitted bytes
\* returns a packet with the same four sections.
C7_PacketRoundTrip ==
    cphase = "packet_read" =>
        /\ EmittedU16(cbuf.data, 4) = Len(cin.questions)
        /\ EmittedU16(cbuf.data, 6) = Len(cin.answers)
        /\ EmittedU16(cbuf.data, 8) = Len(cin.authorities)
        /\ EmittedU16(cbuf.data, 10) = Len(cin.resources)
        /\ cout.b.st = "ok"
        /\ SameSections(cout.v, cin)

\* the number of bytes write_qname emits for a name
EncodedLen(name) == Len(write_qname(NewBuffer, name).data)

\* C8: DnsRecord::read on the bytes of DnsRecord::write(R) returns R, and the
\* RDLENGTH written is the number of RDATA bytes emitted.
C8_RecordRoundTrip ==
    cphase = "record_read" =>
        /\ cout.b.st = "ok"
        /\ cout.v = cin
        /\ EmittedU16(cbuf.data, EncodedLen(cin.domain) + 8)
             = Len(cbuf.data) - (EncodedLen(cin.domain) + 10)

\* C9: DnsHeader::read on the bytes of DnsHeader::write(H) returns H.
C9_HeaderRoundTrip == cphase = "header_read" => cout = cin

\* the number of compression pointers decoding the name at pos follows,
\* counted up to 6
RECURSIVE JumpsNeeded(_, _, _)
JumpsNeeded(b, pos, n) ==
    IF n > 5 \/ pos >= BUF_LEN THEN n
    ELSE LET len == ByteAt(b, pos)
         IN  IF len >= 192
             THEN JumpsNeeded(b, (len - 192) * 256 + ByteAt(b, pos + 1), n + 1)
             ELSE IF len = 0 THEN n
             ELSE JumpsNeeded(b, pos + 1 + len, n)

\* whether decoding the name at pos stays inside the buffer over its first
\* `fuel` labels and pointers
RECURSIVE StaysInside(_, _, _)
StaysInside(b, pos, fuel) ==
    IF pos >= BUF_LEN THEN FALSE
    ELSE IF fuel = 0 THEN TRUE
    ELSE LET len == ByteAt(b, pos)
         IN  IF len >= 192
             THEN pos + 1 < BUF_LEN
                  /\ StaysInside(b, (len - 192) * 256 + ByteAt(b, pos + 1), fuel - 1)
             ELSE IF len = 0 THEN TRUE
             ELSE pos + 1 + len <= BUF_LEN /\ StaysInside(b, pos + 1 + len, fuel - 1)

\* the labels of the name at pos, lowercased, for a name that needs at most
\* 5 jumps and stays inside the buffer
RECURSIVE LabelsAt(_, _)
LabelsAt(b, pos) ==
    LET len == ByteAt(b, pos)
    IN  IF len >= 192 THEN LabelsAt(b, (len - 192) * 256 + ByteAt(b, pos + 1))
        ELSE IF len = 0 THEN <<>>
        ELSE <<[i \in 1..len |-> ToLower(ByteAt(b, pos + i))]>>
             \o LabelsAt(b, pos + 1 + len)

RECURSIVE Dotted(_)
Dotted(labels) ==
    IF labels = <<>> THEN <<>>
    ELSE IF Len(labels) = 1 THEN Head(labels)
    ELSE Head(labels) \o <<46>> \o Dotted(Tail(labels))

QnameOutcome ==
    ~qs.run =>
        /\ JumpsNeeded(qbuf, 0, 0) > 5 => qs.b.st = "err"
        /\ qs.b.st = "err" => JumpsNeeded(qbuf, 0, 0) > 5
        /\ (JumpsNeeded(qbuf, 0, 0) <= 5 /\ StaysInside(qbuf, 0, BUF_LEN)) =>
              /\ qs.b.st = "ok"
              /\ qs.outstr = Dotted(LabelsAt(qbuf, 0))

\* C10: read_qname terminates on every buffer; a name that needs more than 5
\* pointer jumps (a pointer to itself among them) fails with the jump-limit
\* error, and a name that needs at most 5 jumps is decoded.
C10_NameLoopDefense == []QnameOutcome /\ <>(~qs.run)

\* a pointer at offset 0 that points to offset 0 was read and refused
C10_Witness ==
    /\ qbuf.data[1] = 192 /\ qbuf.data[2] = 0
    /\ ~qs.run /\ qs.b.st = "err"

\* a name behind exactly 5 pointers was decoded
C10_Witness5 ==
    /\ ~qs.run /\ qs.b.st = "ok" /\ qs.jumps_performed = 5 /\ qs.outstr = <<97>>

\* the numbers that from_num maps to a named variant
NamedNums == {1, 2, 5, 15, 28}

\* C11, as stated: from_num(to_num(x)) is x for every QueryType x, every
\* UNKNOWN(n) included.
C11_QueryTypeRoundTrip == cphase = "qtype_back" => cout = cin

\* C11, amended: from_num(to_num(x)) is x for the five named variants and
\* for UNKNOWN(n) with n none of 1, 2, 5, 15, 28; for UNKNOWN(n) with n one
\* of these it is the named variant whose number is n; and the number is
\* kept in every case.
C11_QueryTypeRoundTripCanonical ==
    cphase = "qtype_back" =>
        /\ to_num(cout) = to_num(cin)
        /\ (cin.tag # "UNKNOWN" \/ cin.num \notin NamedNums) => cout = cin
        /\ (cin.tag = "UNKNOWN" /\ cin.num \in NamedNums) =>
              /\ cout.tag # "UNKNOWN"
              /\ cout = from_num(cin.num)

\* UNKNOWN(15) went through to_num and from_num and came back as MX
C11_Witness ==
    /\ cphase = "qtype_back"
    /\ cin = QT_UNKNOWN(15)
    /\ cout = QT("MX")

\* C12: when recursive_lookup returns for qtype CNAME on a response with a
\* CNAME answer and no A answer, the accumulator handed back to handle_query
\* holds that CNAME record among its answers and has the response's rcode.
C12_CnameMerged ==
    \A w \in Workers :
       wk[w].cname_hop # Nil =>
          /\ wk[w].pc = "respond"
          /\ \E i \in 1..Len(wk[w].packet.answers) :
                wk[w].packet.answers[i] = wk[w].cname_hop.cname
          /\ wk[w].packet.header.rescode = wk[w].cname_hop.rescode

\* C13: the workers share nothing but the cache, so a hop in progress on
\* one worker never makes a hop of another worker fail: whenever a worker is
\* about to bind the socket of its hop, no other worker's hop stands in the
\* way and the bind succeeds.
C13_HopsIndependent ==
    \A w \in Workers : wk[w].pc = "bind" => port3000 = "free"

\* C14: the cursor never exceeds the end of the buffer, no call on the
\* buffer aborts, and a read, write, get, get_range or set whose access
\* would cross the end of the buffer returns the OutOfBounds error.
C14_BufferBounds ==
    cphase = "buffer" =>
        /\ cbuf.pos <= BUF_LEN
        /\ cbuf.st # "panic"
        /\ (cin.len > 0 /\ cin.at + cin.len > BUF_LEN) => cbuf.st = "err"

====
